---- MODULE Spec2Model ----
(***************************************************************************)
(* discussion_repl: the command REPL of extras/discussion_repl (app.py,    *)
(* console.py) as a state machine.                                         *)
(*                                                                         *)
(* A Python str is modelled as a sequence of one-character strings, so     *)
(* that startswith, strip and lower are computed character by character.   *)
(***************************************************************************)
EXTENDS Integers, Sequences, FiniteSets, TLC

VARIABLES
    pc,          \* position of main(): "fetch", "enrich", "prompt", "dispatch", "exit", "crash"
                 \* (function runs: "function" before the call, "returned" after it)
    mj_item,     \* the MJSavedItem bound by the outer loop (NoItem before the first fetch)
    inputKind,   \* what the last input() call produced: "none", "line", "eof", "interrupt"
    reply,       \* the raw line last returned by input()
    cmd,         \* the value of cmd that the match statement dispatches on
    exc,         \* the exception that left main(), "none" while running
    exitStatus,  \* process status: "running", "success", "failure"
    calls,       \* every subprocess.run of memory_jogger so far, in order
    confirmed,   \* every store command the user entered at the prompt, in order
    nFetch,      \* number of SELECT ... RANDOM() fetches so far
    nPrompts,    \* number of input() calls so far
    out,         \* what the last step wrote and requested, in order
    text,        \* argument of Command.parse / process_response (parser runs)
    parsed,      \* result of Command.parse(text) (parser runs)
    processed,   \* result of CommandPrompt.process_response(text) (parser runs)
    arg_data,        \* argument of format_discussions / parse_url_from_snapshot (function runs)
    arg_exclude_id,  \* argument of format_discussions (function runs)
    returned     \* what the function returned (function runs)

vars == <<pc, mj_item, inputKind, reply, cmd, exc, exitStatus, calls, confirmed,
          nFetch, nPrompts, out, text, parsed, processed, arg_data, arg_exclude_id, returned>>

replVars == <<pc, mj_item, inputKind, reply, cmd, exc, exitStatus, calls, confirmed,
              nFetch, nPrompts, out>>

parseVars == <<text, parsed, processed, arg_data, arg_exclude_id, returned>>

----------------------------------------------------------------------------
(* Bounds of the model *)

\* fetches of one run
MaxFetch == 2

\* input() calls of one run
MaxPrompts == 3

\* longest arbitrary text handed to the parser
MaxLen == 2

----------------------------------------------------------------------------
(* Command (app.py 31-50, console.py 11-34) *)

\* Python's None
None == "None"

ARCHIVE == "ARCHIVE"
DELETE == "DELETE"
FAVORITE == "FAVORITE"
NEXT == "NEXT"
QUIT == "QUIT"

\* iteration order of the enum: definition order
Command == <<ARCHIVE, DELETE, FAVORITE, NEXT, QUIT>>

\* Command.<member>.value
value(c) ==
    CASE c = ARCHIVE -> <<"a", "r", "c", "h", "i", "v", "e">>
      [] c = DELETE -> <<"d", "e", "l", "e", "t", "e">>
      [] c = FAVORITE -> <<"f", "a", "v", "o", "r", "i", "t", "e">>
      [] c = NEXT -> <<"n", "e", "x", "t">>
      [] c = QUIT -> <<"q", "u", "i", "t">>

\* str.startswith
startswith(s, prefix) ==
    /\ Len(prefix) <= Len(s)
    /\ SubSeq(s, 1, Len(prefix)) = prefix

\* Command.parse without the check for the empty string
parse_no_empty_check(t) ==
    LET matching == {i \in 1..Len(Command) : startswith(value(Command[i]), t)}
    IN IF matching = {}
       THEN None
       ELSE Command[CHOOSE i \in matching : \A j \in matching : i <= j]

\* Command.parse: None for the empty string, else the first member, in
\* definition order, whose value starts with the text, else None
parse(t) ==
    IF t = <<>>
    THEN None
    ELSE LET matching == {i \in 1..Len(Command) : startswith(value(Command[i]), t)}
         IN IF matching = {}
            THEN None
            ELSE Command[CHOOSE i \in matching : \A j \in matching : i <= j]

----------------------------------------------------------------------------
(* str.strip and str.lower *)

UpperChars == <<"A", "B", "C", "D", "E", "F", "G", "H", "I", "J", "K", "L", "M",
                "N", "O", "P", "Q", "R", "S", "T", "U", "V", "W", "X", "Y", "Z">>

LowerChars == <<"a", "b", "c", "d", "e", "f", "g", "h", "i", "j", "k", "l", "m",
                "n", "o", "p", "q", "r", "s", "t", "u", "v", "w", "x", "y", "z">>

Whitespace == {" ", "\t", "\n"}

lowerChar(ch) ==
    IF \E i \in 1..Len(UpperChars) : UpperChars[i] = ch
    THEN LowerChars[CHOOSE i \in 1..Len(UpperChars) : UpperChars[i] = ch]
    ELSE ch

\* str.lower
lower(s) == [i \in 1..Len(s) |-> lowerChar(s[i])]

\* str.strip: drop leading and trailing whitespace
strip(s) ==
    LET keep == {i \in 1..Len(s) : s[i] \notin Whitespace}
    IN IF keep = {}
       THEN <<>>
       ELSE LET first == CHOOSE i \in keep : \A j \in keep : i <= j
                last == CHOOSE i \in keep : \A j \in keep : j <= i
            IN SubSeq(s, first, last)

\* CommandPrompt.process_response: the command of the normalised text;
\* "InvalidResponse" stands for raising rich.prompt.InvalidResponse
process_response(v) ==
    LET normalised == lower(strip(v))
    IN IF parse(normalised) # None THEN parse(normalised) ELSE "InvalidResponse"

----------------------------------------------------------------------------
(* What a step writes and requests *)

\* print(..., file=sys.stdout) of the given pieces of text
stdout(t) == [ev |-> "print", chan |-> "stdout", text |-> t]

\* print(..., file=sys.stderr)
stderr(t) == [ev |-> "print", chan |-> "stderr", text |-> t]

\* requests.get(api, ...) with the given arguments
httpGet(api, args) == [ev |-> "get", chan |-> api, text |-> args]

\* an exception raised at the given place
raises(where, exception) == [ev |-> "raise", chan |-> where, text |-> <<exception>>]

\* cur.execute("SELECT ... ORDER BY RANDOM() LIMIT 1")
sqlSelect == [ev |-> "select", chan |-> "saved_items", text |-> <<>>]

\* subprocess.run(argv, ...)
subprocessRun(argv) == [ev |-> "run", chan |-> "subprocess", text |-> argv]

\* the lookup of RedditClient.get_submission: praw's Reddit.submission(url=...)
REDDIT_BY_URL == "reddit.submission(url=)"

\* RedditClient.get_submission(key): the key handed to praw's url= lookup
redditLookup(key) == [ev |-> "submission", chan |-> REDDIT_BY_URL, text |-> <<key>>]

\* resp.json() of a request that succeeded: the field read from it
answer(api, field) == [ev |-> "response", chan |-> api, text |-> <<field>>]

HN_SEARCH_URL == "https://hn.algolia.com/api/v1/search"
HN_ITEM_URL == "https://hacker-news.firebaseio.com/v0/item/"
BASE_URL == "http://archive.org/wayback/available"

\* str(int)
str(n) == ToString(n)

----------------------------------------------------------------------------
(* The saved-item store: rows of saved_items (app.py 159-167, 182-185) *)

NoItem ==
    [id |-> 0, excerpt |-> "", time_added |-> <<>>,
     url |-> [href |-> "", netloc |-> "", ids |-> <<>>, path |-> <<>>]]

\* urllib.parse.urlparse of the five kinds of URL a row can hold: netloc,
\* parse_qs(query)["id"] (<<>> when the query has no id) and path.split("/")
Urls ==
    << [href |-> "http://example.com/a", netloc |-> "example.com",
        ids |-> <<>>, path |-> <<"", "a">>],
       [href |-> "https://news.ycombinator.com/item?id=123", netloc |-> "news.ycombinator.com",
        ids |-> <<"123">>, path |-> <<"", "item">>],
       [href |-> "https://www.reddit.com/r/python/comments/abc/title/", netloc |-> "www.reddit.com",
        ids |-> <<>>, path |-> <<"", "r", "python", "comments", "abc", "title", "">>],
       [href |-> "https://news.ycombinator.com/item", netloc |-> "news.ycombinator.com",
        ids |-> <<>>, path |-> <<"", "item">>],
       [href |-> "https://news.ycombinator.com/item?id=1&id=2", netloc |-> "news.ycombinator.com",
        ids |-> <<"1", "2">>, path |-> <<"", "item">>] >>

\* ids of the rows of saved_items: one row for each kind of URL
ItemIds == DOMAIN Urls

\* the row with id i; every second row has no excerpt
Store(i) ==
    [id |-> i,
     excerpt |-> IF i % 2 = 1 THEN "excerpt" ELSE "",
     time_added |-> <<"2", "0", "1", "3", "-", "0", "9", "-", "1", "9", "T",
                      "0", "4", ":", "4", "6", ":", "1", "2">>,
     url |-> Urls[i]]

----------------------------------------------------------------------------
(* HNItem and format_discussions (app.py 53-93) *)

\* a hit of the search API: {"objectID", "points", "created_at_i"}
Hit(id, points, created) == [objectID |-> id, points |-> points, created_at_i |-> created]

\* HNItem.from_json
from_json(json) == [id |-> json.objectID, points |-> json.points, created_at |-> json.created_at_i]

\* HNItem.discussion_url
discussion_url(item) == <<"https://news.ycombinator.com/item?id=", item.id>>

\* HNItem.__str__: "<discussion url> | <n> point[s] | <created_at>"
item_str(item) ==
    discussion_url(item)
        \o <<" | ", str(item.points), IF item.points # 1 THEN " points" ELSE " point">>
        \o <<" | ", "created_at:", str(item.created_at)>>

\* [item for item in items if item.id != exclude_id]
RECURSIVE exclude(_, _)
exclude(items, exclude_id) ==
    IF items = <<>>
    THEN <<>>
    ELSE IF Head(items).id # exclude_id
         THEN <<Head(items)>> \o exclude(Tail(items), exclude_id)
         ELSE exclude(Tail(items), exclude_id)

\* insert that puts x before the items with equal points
RECURSIVE insert_before_equal(_, _)
insert_before_equal(sortedItems, x) ==
    IF sortedItems = <<>>
    THEN <<x>>
    ELSE IF Head(sortedItems).points > x.points
         THEN <<Head(sortedItems)>> \o insert_before_equal(Tail(sortedItems), x)
         ELSE <<x>> \o sortedItems

\* one step of sorted(..., reverse=True): put x after every item that does
\* not have fewer points, so that equal keys keep their input order
RECURSIVE insert(_, _)
insert(sortedItems, x) ==
    IF sortedItems = <<>>
    THEN <<x>>
    ELSE IF Head(sortedItems).points >= x.points
         THEN <<Head(sortedItems)>> \o insert(Tail(sortedItems), x)
         ELSE <<x>> \o sortedItems

\* sorted(items, key=lambda item: item.points, reverse=True)
RECURSIVE sorted(_)
sorted(items) ==
    IF items = <<>>
    THEN <<>>
    ELSE insert(sorted(SubSeq(items, 1, Len(items) - 1)), items[Len(items)])

\* format_discussions: one formatted line per kept hit
format_discussions(data, exclude_id) ==
    LET items == [i \in 1..Len(data.hits) |-> from_json(data.hits[i])]
        kept == sorted(exclude(items, exclude_id))
    IN [i \in 1..Len(kept) |-> item_str(kept[i])]

\* "\n".join(lines), each line a sequence of pieces
RECURSIVE join(_)
join(lines) ==
    IF lines = <<>>
    THEN <<>>
    ELSE IF Len(lines) = 1
         THEN Head(lines)
         ELSE Head(lines) \o <<"\n">> \o join(Tail(lines))

----------------------------------------------------------------------------
(* wayback.py *)

\* parse_url_from_snapshot reading the wrong field of the closest snapshot
parse_url_from_snapshot_timestamp(data) ==
    IF DOMAIN data.archived_snapshots # {}
    THEN data.archived_snapshots.closest.timestamp
    ELSE None

\* parse_url_from_snapshot: data["archived_snapshots"] is a dict, modelled
\* as a function from keys; the empty dict is falsy
parse_url_from_snapshot(data) ==
    IF DOMAIN data.archived_snapshots # {}
    THEN data.archived_snapshots.closest.url
    ELSE None

\* [ch for ch in s if ch not in dropped]: str.replace(ch, "") for each ch
RECURSIVE without(_, _)
without(s, dropped) ==
    IF s = <<>>
    THEN <<>>
    ELSE IF Head(s) \in dropped
         THEN without(Tail(s), dropped)
         ELSE <<Head(s)>> \o without(Tail(s), dropped)

\* timestamp.isoformat().replace("T", "").replace("-", "").replace(":", "")
ts_str(timestamp) == without(timestamp, {"T", "-", ":"})

\* get_snapshot: one GET, then the parse; net.wayback is what the archive
\* answers: its status ("fail" when the request or raise_for_status raises)
\* and its JSON
get_snapshot(url, timestamp, net) ==
    LET request == <<httpGet(BASE_URL, <<url.href>> \o ts_str(timestamp))>>
    IN IF net.wayback.status = "fail"
       THEN [events |-> request \o <<raises(BASE_URL, "RequestException")>>,
             raised |-> "RequestException", ret |-> None]
       ELSE [events |-> request, raised |-> "none",
             ret |-> parse_url_from_snapshot(net.wayback)]

----------------------------------------------------------------------------
(* The discussion resolver (app.py 96-134) *)

\* A resolver run yields the events it caused and the exception it raised
\* ("none" when it returned).

\* find_and_display_discussions_non_hn: the search, then one print of the
\* formatted hits; net.search is the answer: its status ("fail" when
\* the request or raise_for_status raises) and its JSON
find_and_display_discussions_non_hn(href, exclude_id, net) ==
    LET request == <<httpGet(HN_SEARCH_URL, <<href, "num_comments>0", "url">>)>>
    IN IF net.search.status = "fail"
       THEN [events |-> request \o <<raises(HN_SEARCH_URL, "RequestException")>>,
             raised |-> "RequestException"]
       ELSE [events |-> request \o <<stdout(join(format_discussions(net.search, exclude_id)))>>,
             raised |-> "none"]

\* find_and_display_discussions that searches the article URL without
\* exclude_id
find_and_display_discussions_no_exclude(url, net) ==
    IF url.netloc = "news.ycombinator.com"
    THEN IF url.ids = <<>>
         THEN [events |-> <<raises("parse_qs", "KeyError")>>, raised |-> "KeyError"]
         ELSE IF Len(url.ids) # 1
         THEN [events |-> <<raises("assert", "AssertionError")>>, raised |-> "AssertionError"]
         ELSE LET post_id == url.ids[1]
                  request == <<httpGet(HN_ITEM_URL, <<post_id, ".json">>)>>
              IN IF net.item = "fail"
                 THEN [events |-> request \o <<raises(HN_ITEM_URL, "RequestException")>>,
                       raised |-> "RequestException"]
                 ELSE IF net.item # None
                 THEN LET search == find_and_display_discussions_non_hn(net.item, None, net)
                      IN [events |-> request \o <<answer(HN_ITEM_URL, net.item),
                                                  stdout(<<net.item>>)>> \o search.events,
                          raised |-> search.raised]
                 ELSE [events |-> request \o <<answer(HN_ITEM_URL, net.item)>>,
                       raised |-> "none"]
    ELSE IF url.netloc = "www.reddit.com"
    THEN IF Len(url.path) < 3
         THEN [events |-> <<raises("path.split", "IndexError")>>, raised |-> "IndexError"]
         ELSE
         LET submission_id == url.path[Len(url.path) - 2]
             search == find_and_display_discussions_non_hn(net.submission, None, net)
         IN IF net.submission = "raise"
            THEN [events |-> <<redditLookup(submission_id),
                               raises(REDDIT_BY_URL, "PRAWException")>>,
                  raised |-> "PRAWException"]
            ELSE [events |-> <<redditLookup(submission_id), stdout(<<net.submission>>)>>
                                \o search.events,
                  raised |-> search.raised]
    ELSE find_and_display_discussions_non_hn(url.href, None, net)

\* find_and_display_discussions: dispatch on the host of the URL.
\* net.item is what the item API answers: "fail", or the "url" of the item's
\* JSON (None when the item has none). net.submission is what praw answers
\* to the lookup: the url of the submission, or "raise" when it raises (the
\* library is not part of the source: either can happen).
find_and_display_discussions(url, net) ==
    IF url.netloc = "news.ycombinator.com"
    THEN IF url.ids = <<>>
         THEN [events |-> <<raises("parse_qs", "KeyError")>>, raised |-> "KeyError"]
         ELSE IF Len(url.ids) # 1
         THEN [events |-> <<raises("assert", "AssertionError")>>, raised |-> "AssertionError"]
         ELSE LET post_id == url.ids[1]
                  request == <<httpGet(HN_ITEM_URL, <<post_id, ".json">>)>>
              IN IF net.item = "fail"
                 THEN [events |-> request \o <<raises(HN_ITEM_URL, "RequestException")>>,
                       raised |-> "RequestException"]
                 ELSE IF net.item # None
                 THEN LET search == find_and_display_discussions_non_hn(net.item, post_id, net)
                      IN [events |-> request \o <<answer(HN_ITEM_URL, net.item),
                                                  stdout(<<net.item>>)>> \o search.events,
                          raised |-> search.raised]
                 ELSE [events |-> request \o <<answer(HN_ITEM_URL, net.item)>>,
                       raised |-> "none"]
    ELSE IF url.netloc = "www.reddit.com"
    THEN IF Len(url.path) < 3
         THEN [events |-> <<raises("path.split", "IndexError")>>, raised |-> "IndexError"]
         ELSE
         LET submission_id == url.path[Len(url.path) - 2]
             search == find_and_display_discussions_non_hn(net.submission, None, net)
         IN IF net.submission = "raise"
            THEN [events |-> <<redditLookup(submission_id),
                               raises(REDDIT_BY_URL, "PRAWException")>>,
                  raised |-> "PRAWException"]
            ELSE [events |-> <<redditLookup(submission_id), stdout(<<net.submission>>)>>
                                \o search.events,
                  raised |-> search.raised]
    ELSE find_and_display_discussions_non_hn(url.href, None, net)

----------------------------------------------------------------------------
(* What the network can answer during one iteration *)

ARTICLE_URL == "http://example.com/a"
SNAPSHOT_URL == "http://web.archive.org/web/20130919044612/http://example.com/"

\* answers of the search API that the REPL runs draw from
SearchAnswers ==
    { [status |-> "fail", hits |-> <<>>],
      [status |-> "ok", hits |-> <<>>],
      [status |-> "ok", hits |-> <<Hit("2", 1, 1), Hit("123", 10, 0)>>] }

\* answers of the archive API
WaybackAnswers ==
    { [status |-> "fail", archived_snapshots |-> <<>>],
      [status |-> "ok", archived_snapshots |-> <<>>],
      [status |-> "ok", archived_snapshots |-> [closest |-> [url |-> SNAPSHOT_URL]]] }

Nets ==
    [item : {"fail", None, ARTICLE_URL},
     submission : {"raise", ARTICLE_URL},
     search : SearchAnswers,
     wayback : WaybackAnswers]

----------------------------------------------------------------------------
(* main(): display and enrich (app.py 186-198) *)

\* lines 186-191: the summary of the item, one print
summary(item) ==
    stdout(<<"title", str(item.id), "\n", "", "\n">>
           \o (IF item.excerpt # "" THEN <<item.excerpt, "\n", "", "\n">> ELSE <<>>)
           \o <<item.url.href, "\n", "added: ">> \o item.time_added)

\* enrich with the snapshot lookup in a try block of its own: it runs
\* whether or not the resolver raised RequestException
enrich_snapshot_always(item, net) ==
    LET found == find_and_display_discussions(item.url, net)
        snap == get_snapshot(item.url, item.time_added, net)
        warning(e) == <<stderr(<<"warning:", " fetching discussions failed: ", e>>)>>
    IN IF found.raised \notin {"none", "RequestException"}
       THEN found
       ELSE [events |-> found.events
                           \o (IF found.raised = "RequestException"
                               THEN warning(found.raised) ELSE <<>>)
                           \o snap.events
                           \o (IF snap.raised = "none" /\ snap.ret # None
                               THEN <<stdout(<<snap.ret, " (wayback archive)">>)>>
                               ELSE <<>>)
                           \o (IF snap.raised = "RequestException"
                               THEN warning(snap.raised) ELSE <<>>),
             raised |-> "none"]

\* enrich with `except Exception`: every exception becomes a warning
enrich_catch_all(item, net) ==
    LET found == find_and_display_discussions(item.url, net)
        snap == get_snapshot(item.url, item.time_added, net)
        tried ==
            IF found.raised # "none"
            THEN found
            ELSE [events |-> found.events \o snap.events
                                \o (IF snap.raised = "none" /\ snap.ret # None
                                    THEN <<stdout(<<snap.ret, " (wayback archive)">>)>>
                                    ELSE <<>>),
                  raised |-> snap.raised]
    IN IF tried.raised # "none"
       THEN [events |-> tried.events
                          \o <<stderr(<<"warning:", " fetching discussions failed: ", tried.raised>>)>>,
             raised |-> "none"]
       ELSE tried

\* enrich without the except clause: every exception leaves the block
enrich_uncaught(item, net) ==
    LET found == find_and_display_discussions(item.url, net)
        snap == get_snapshot(item.url, item.time_added, net)
    IN IF found.raised # "none"
       THEN found
       ELSE [events |-> found.events \o snap.events
                           \o (IF snap.raised = "none" /\ snap.ret # None
                               THEN <<stdout(<<snap.ret, " (wayback archive)">>)>>
                               ELSE <<>>),
             raised |-> snap.raised]

\* lines 192-198: the try block and its except clause. The snapshot lookup
\* runs only when the resolver returned; a RequestException of either is
\* turned into a warning on stderr, any other exception leaves the block.
enrich(item, net) ==
    LET found == find_and_display_discussions(item.url, net)
        snap == get_snapshot(item.url, item.time_added, net)
        tried ==
            IF found.raised # "none"
            THEN found
            ELSE [events |-> found.events \o snap.events
                                \o (IF snap.raised = "none" /\ snap.ret # None
                                    THEN <<stdout(<<snap.ret, " (wayback archive)">>)>>
                                    ELSE <<>>),
                  raised |-> snap.raised]
    IN IF tried.raised = "RequestException"
       THEN [events |-> tried.events
                          \o <<stderr(<<"warning:", " fetching discussions failed: ", tried.raised>>)>>,
             raised |-> "none"]
       ELSE tried

----------------------------------------------------------------------------
(* The store commands (app.py 137-156) *)

\* the argv of subprocess.run in run_memory_jogger
run_memory_jogger(args) == <<"memory_jogger">> \o args

archive_item(mj_id) == run_memory_jogger(<<"saved-items", "archive", "--item-id", str(mj_id)>>)

favorite_item(mj_id) == run_memory_jogger(<<"saved-items", "favorite", "--item-id", str(mj_id)>>)

delete_item(mj_id) == run_memory_jogger(<<"saved-items", "delete", "--item-id", str(mj_id)>>)

\* one subprocess.run(..., check=True): its argv, whether the command
\* exited with status 0, and how many fetches and prompts preceded it
Call(argv, ok) == [argv |-> argv, ok |-> ok, iter |-> nFetch, prompts |-> nPrompts]

----------------------------------------------------------------------------
(* main() (app.py 170-226) *)

\* the lines the user types in the REPL runs
Replies ==
    { <<>>,
      <<"a">>, <<"d">>, <<"f">>, <<"n">>, <<"q">>,
      <<"A">>, <<" ", "a", " ">>,
      <<"f", "a", "v">>,
      <<"x">>, <<"u", "n", "k", "n", "o", "w", "n">> }

StoreCommands == {ARCHIVE, DELETE, FAVORITE}

PROMPT_TEXT == "(a)rchive (d)elete (f)avorite (n)ext (q)uit: "

Init ==
    /\ pc = "fetch"
    /\ mj_item = NoItem
    /\ inputKind = "none"
    /\ reply = <<>>
    /\ cmd = None
    /\ exc = "none"
    /\ exitStatus = "running"
    /\ calls = <<>>
    /\ confirmed = <<>>
    /\ nFetch = 0
    /\ nPrompts = 0
    /\ out = <<>>
    /\ text = <<>>
    /\ parsed = None
    /\ processed = None
    /\ arg_data = <<>>
    /\ arg_exclude_id = None
    /\ returned = None

\* lines 182-185: SELECT one random row and bind mj_item
Fetch ==
    /\ pc = "fetch"
    /\ nFetch < MaxFetch
    /\ \E i \in ItemIds : mj_item' = Store(i)
    /\ nFetch' = nFetch + 1
    /\ out' = <<sqlSelect>>
    /\ pc' = "enrich"
    /\ UNCHANGED <<inputKind, reply, cmd, exc, exitStatus, calls, confirmed, nPrompts>>
    /\ UNCHANGED parseVars

\* lines 186-198: print the summary, resolve discussions, look up the snapshot
Enrich ==
    /\ pc = "enrich"
    /\ \E net \in Nets :
         LET done == enrich(mj_item, net)
         IN /\ out' = <<summary(mj_item)>> \o done.events
            /\ IF done.raised = "none"
               THEN /\ pc' = "prompt"
                    /\ UNCHANGED <<exc, exitStatus>>
               ELSE /\ pc' = "crash"
                    /\ exc' = done.raised
                    /\ exitStatus' = "failure"
    /\ UNCHANGED <<mj_item, inputKind, reply, cmd, calls, confirmed, nFetch, nPrompts>>
    /\ UNCHANGED parseVars

\* lines 201-209, input() returns a line: an empty one re-prompts, any
\* other is parsed as typed
InputLine(r) ==
    /\ pc = "prompt"
    /\ nPrompts < MaxPrompts
    /\ nPrompts' = nPrompts + 1
    /\ inputKind' = "line"
    /\ reply' = r
    /\ out' = <<stdout(<<PROMPT_TEXT>>)>>
    /\ IF r = <<>>
       THEN /\ pc' = "prompt"
            /\ UNCHANGED <<cmd, confirmed>>
       ELSE /\ pc' = "dispatch"
            /\ cmd' = parse(r)
            /\ confirmed' = IF parse(r) \in StoreCommands
                            THEN Append(confirmed, [cmd |-> parse(r), id |-> mj_item.id,
                                                    prompts |-> nPrompts + 1])
                            ELSE confirmed
    /\ UNCHANGED <<mj_item, exc, exitStatus, calls, nFetch>>
    /\ UNCHANGED parseVars

\* InputEOF without the except clause: EOFError leaves main()
InputEOF_uncaught ==
    /\ pc = "prompt"
    /\ nPrompts < MaxPrompts
    /\ nPrompts' = nPrompts + 1
    /\ inputKind' = "eof"
    /\ out' = <<stdout(<<PROMPT_TEXT>>)>>
    /\ pc' = "crash"
    /\ exc' = "EOFError"
    /\ exitStatus' = "failure"
    /\ UNCHANGED <<mj_item, reply, cmd, calls, confirmed, nFetch>>
    /\ UNCHANGED parseVars

\* lines 201-204, input() raises EOFError: cmd is QUIT
InputEOF ==
    /\ pc = "prompt"
    /\ nPrompts < MaxPrompts
    /\ nPrompts' = nPrompts + 1
    /\ inputKind' = "eof"
    /\ cmd' = QUIT
    /\ out' = <<stdout(<<PROMPT_TEXT>>)>>
    /\ pc' = "dispatch"
    /\ UNCHANGED <<mj_item, reply, exc, exitStatus, calls, confirmed, nFetch>>
    /\ UNCHANGED parseVars

\* lines 201-203, input() raises KeyboardInterrupt: no except clause of
\* main() matches it, it leaves main() (script/run.py 11-12 exits with 1)
InputInterrupt ==
    /\ pc = "prompt"
    /\ nPrompts < MaxPrompts
    /\ nPrompts' = nPrompts + 1
    /\ inputKind' = "interrupt"
    /\ out' = <<stdout(<<PROMPT_TEXT>>)>>
    /\ pc' = "crash"
    /\ exc' = "KeyboardInterrupt"
    /\ exitStatus' = "failure"
    /\ UNCHANGED <<mj_item, reply, cmd, calls, confirmed, nFetch>>
    /\ UNCHANGED parseVars

\* RunStoreCommand with check=False: the exit status is ignored
RunStoreCommand_unchecked(argv, after) ==
    \E ok \in BOOLEAN :
        /\ calls' = Append(calls, Call(argv, ok))
        /\ out' = <<subprocessRun(argv)>>
        /\ pc' = after
        /\ UNCHANGED <<exc, exitStatus>>

\* subprocess.run(argv, check=True) from a case of the match statement: the
\* command runs once; when it exits with 0 main() goes on at `after`, else
\* CalledProcessError leaves main()
RunStoreCommand(argv, after) ==
    \E ok \in BOOLEAN :
        /\ calls' = Append(calls, Call(argv, ok))
        /\ out' = <<subprocessRun(argv)>>
                   \o (IF ok THEN <<>> ELSE <<raises("subprocess", "CalledProcessError")>>)
        /\ IF ok
           THEN /\ pc' = after
                /\ UNCHANGED <<exc, exitStatus>>
           ELSE /\ pc' = "crash"
                /\ exc' = "CalledProcessError"
                /\ exitStatus' = "failure"

\* CaseArchive running the archive command twice for one reply
CaseArchive_twice ==
    /\ pc = "dispatch"
    /\ cmd = ARCHIVE
    /\ calls' = calls \o <<Call(archive_item(mj_item.id), TRUE),
                           Call(archive_item(mj_item.id), TRUE)>>
    /\ out' = <<subprocessRun(archive_item(mj_item.id)), subprocessRun(archive_item(mj_item.id))>>
    /\ pc' = "fetch"
    /\ UNCHANGED <<mj_item, inputKind, reply, cmd, exc, exitStatus, confirmed, nFetch, nPrompts>>
    /\ UNCHANGED parseVars

\* lines 212-214
CaseArchive ==
    /\ pc = "dispatch"
    /\ cmd = ARCHIVE
    /\ RunStoreCommand(archive_item(mj_item.id), "fetch")
    /\ UNCHANGED <<mj_item, inputKind, reply, cmd, confirmed, nFetch, nPrompts>>
    /\ UNCHANGED parseVars

\* CaseDelete without its break: the inner loop prompts again
CaseDelete_no_break ==
    /\ pc = "dispatch"
    /\ cmd = DELETE
    /\ RunStoreCommand(delete_item(mj_item.id), "prompt")
    /\ UNCHANGED <<mj_item, inputKind, reply, cmd, confirmed, nFetch, nPrompts>>
    /\ UNCHANGED parseVars

\* lines 215-217
CaseDelete ==
    /\ pc = "dispatch"
    /\ cmd = DELETE
    /\ RunStoreCommand(delete_item(mj_item.id), "fetch")
    /\ UNCHANGED <<mj_item, inputKind, reply, cmd, confirmed, nFetch, nPrompts>>
    /\ UNCHANGED parseVars

\* CaseFavorite with a break after favorite_item: the outer loop goes on
CaseFavorite_breaks ==
    /\ pc = "dispatch"
    /\ cmd = FAVORITE
    /\ RunStoreCommand(favorite_item(mj_item.id), "fetch")
    /\ UNCHANGED <<mj_item, inputKind, reply, cmd, confirmed, nFetch, nPrompts>>
    /\ UNCHANGED parseVars

\* lines 218-220: no break, the inner loop prompts again
CaseFavorite ==
    /\ pc = "dispatch"
    /\ cmd = FAVORITE
    /\ RunStoreCommand(favorite_item(mj_item.id), "prompt")
    /\ UNCHANGED <<mj_item, inputKind, reply, cmd, confirmed, nFetch, nPrompts>>
    /\ UNCHANGED parseVars

\* CaseNext sharing the body of the ARCHIVE case
CaseNext_archives ==
    /\ pc = "dispatch"
    /\ cmd = NEXT
    /\ RunStoreCommand(archive_item(mj_item.id), "fetch")
    /\ UNCHANGED <<mj_item, inputKind, reply, cmd, confirmed, nFetch, nPrompts>>
    /\ UNCHANGED parseVars

\* lines 221-222
CaseNext ==
    /\ pc = "dispatch"
    /\ cmd = NEXT
    /\ pc' = "fetch"
    /\ out' = <<>>
    /\ UNCHANGED <<mj_item, inputKind, reply, cmd, exc, exitStatus, calls, confirmed,
                   nFetch, nPrompts>>
    /\ UNCHANGED parseVars

\* lines 223-224: sys.exit() raises SystemExit, status 0
CaseQuit ==
    /\ pc = "dispatch"
    /\ cmd = QUIT
    /\ pc' = "exit"
    /\ exc' = "SystemExit"
    /\ exitStatus' = "success"
    /\ out' = <<>>
    /\ UNCHANGED <<mj_item, inputKind, reply, cmd, calls, confirmed, nFetch, nPrompts>>
    /\ UNCHANGED parseVars

\* CaseNone without the print
CaseNone_silent ==
    /\ pc = "dispatch"
    /\ cmd = None
    /\ out' = <<>>
    /\ pc' = "prompt"
    /\ UNCHANGED <<mj_item, inputKind, reply, cmd, exc, exitStatus, calls, confirmed,
                   nFetch, nPrompts>>
    /\ UNCHANGED parseVars

\* lines 225-226
CaseNone ==
    /\ pc = "dispatch"
    /\ cmd = None
    /\ out' = <<stdout(<<"unknown command: ">> \o reply)>>
    /\ pc' = "prompt"
    /\ UNCHANGED <<mj_item, inputKind, reply, cmd, exc, exitStatus, calls, confirmed,
                   nFetch, nPrompts>>
    /\ UNCHANGED parseVars

Next ==
    \/ Fetch
    \/ Enrich
    \/ \E r \in Replies : InputLine(r)
    \/ InputEOF
    \/ InputInterrupt
    \/ CaseArchive
    \/ CaseDelete
    \/ CaseFavorite
    \/ CaseNext
    \/ CaseQuit
    \/ CaseNone

Spec == Init /\ [][Next]_vars

----------------------------------------------------------------------------
(* Runs of the parser alone: Command.parse and process_response applied to *)
(* one text *)

\* characters of the arbitrary texts
ParseAlphabet == {"a", "d", "e", "q", "x", "A", " "}

\* all sequences over S of length at most n
RECURSIVE SeqsUpTo(_, _)
SeqsUpTo(S, n) ==
    IF n = 0
    THEN {<<>>}
    ELSE LET shorter == SeqsUpTo(S, n - 1)
         IN shorter \cup {Append(t, ch) : t \in shorter, ch \in S}

\* value[: i + 1] for every member and every i
CMD_PREFIXES ==
    UNION {{SubSeq(value(Command[c]), 1, i) : i \in 1..Len(value(Command[c]))} :
           c \in 1..Len(Command)}

Texts ==
    SeqsUpTo(ParseAlphabet, MaxLen)
        \cup CMD_PREFIXES
        \cup Replies
        \cup {<<"A", "r", "c">>, <<"\t", "Q", "U", "I", "T", "\n">>, <<"a", " ">>}

InitParse ==
    /\ pc = "parser"
    /\ mj_item = NoItem
    /\ inputKind = "none"
    /\ reply = <<>>
    /\ cmd = None
    /\ exc = "none"
    /\ exitStatus = "running"
    /\ calls = <<>>
    /\ confirmed = <<>>
    /\ nFetch = 0
    /\ nPrompts = 0
    /\ out = <<>>
    /\ text \in Texts
    /\ parsed = "unset"
    /\ processed = "unset"
    /\ arg_data = <<>>
    /\ arg_exclude_id = None
    /\ returned = None

\* Command.parse(text)
ApplyParse ==
    /\ pc = "parser"
    /\ parsed = "unset"
    /\ parsed' = parse(text)
    /\ UNCHANGED <<text, processed, arg_data, arg_exclude_id, returned>>
    /\ UNCHANGED replVars

\* CommandPrompt().process_response(text)
ApplyProcessResponse ==
    /\ pc = "parser"
    /\ processed = "unset"
    /\ processed' = process_response(text)
    /\ UNCHANGED <<text, parsed, arg_data, arg_exclude_id, returned>>
    /\ UNCHANGED replVars

NextParse == ApplyParse \/ ApplyProcessResponse

SpecParse == InitParse /\ [][NextParse]_vars

----------------------------------------------------------------------------
(* Properties of the REPL *)

\* the argv of the store command `sub` for the item with the given id
ExpectedArgv(sub, id) == <<"memory_jogger", "saved-items", sub, "--item-id", str(id)>>

\* this step runs exactly one store command, with the given argv
OneCall(argv) ==
    /\ Len(calls') = Len(calls) + 1
    /\ SubSeq(calls', 1, Len(calls)) = calls
    /\ calls'[Len(calls')].argv = argv

\* the store command this step ran exited with status 0
CallSucceeded == calls'[Len(calls')].ok

\* C1: FAVORITE is non-terminal. Dispatching FAVORITE runs the favorite
\* command exactly once with the id of the current item, fetches nothing
\* and keeps the item, and (the command having succeeded) the session is at
\* the prompt again; reading a reply at the prompt keeps the item too, so a
\* second FAVORITE, or a following ARCHIVE, DELETE or NEXT, is about that
\* same item.
C1_FavoriteNonTerminal ==
    [][ /\ (pc = "dispatch" /\ cmd = FAVORITE) =>
              /\ OneCall(ExpectedArgv("favorite", mj_item.id))
              /\ mj_item' = mj_item
              /\ nFetch' = nFetch
              /\ (CallSucceeded => pc' = "prompt")
        /\ pc = "prompt" => (mj_item' = mj_item /\ nFetch' = nFetch /\ calls' = calls)
      ]_vars

\* FAVORITE twice and then ARCHIVE, all three commands run on the one item
\* of the first iteration
C1_Witness ==
    /\ Len(calls) = 3
    /\ nFetch = 1
    /\ calls[1].argv = ExpectedArgv("favorite", mj_item.id)
    /\ calls[2].argv = ExpectedArgv("favorite", mj_item.id)
    /\ calls[3].argv = ExpectedArgv("archive", mj_item.id)
    /\ pc = "fetch"

\* C2: ARCHIVE and DELETE are terminal. Dispatching ARCHIVE (DELETE) runs
\* the archive (delete) command exactly once with the id of the displayed
\* item and (the command having succeeded) the session is at FETCH_ITEM;
\* from there an item is fetched and its summary displayed before any prompt.
C2_ArchiveDeleteTerminal ==
    [][ /\ (pc = "dispatch" /\ cmd \in {ARCHIVE, DELETE}) =>
              /\ OneCall(ExpectedArgv(IF cmd = ARCHIVE THEN "archive" ELSE "delete",
                                      mj_item.id))
              /\ (CallSucceeded => pc' = "fetch")
        /\ pc = "fetch" =>
              /\ pc' = "enrich"
              /\ nFetch' = nFetch + 1
              /\ mj_item' \in {Store(i) : i \in ItemIds}
              /\ nPrompts' = nPrompts
        /\ pc = "enrich" =>
              /\ out'[1] = summary(mj_item)
              /\ mj_item' = mj_item
              /\ nPrompts' = nPrompts
              /\ pc' \in {"prompt", "crash"}
      ]_vars

\* an item archived, the next one fetched, displayed and deleted
C2_Witness ==
    /\ Len(calls) = 2
    /\ calls[1].argv[3] = "archive" /\ calls[1].iter = 1 /\ calls[1].ok
    /\ calls[2].argv = ExpectedArgv("delete", mj_item.id) /\ calls[2].iter = 2 /\ calls[2].ok
    /\ pc = "fetch"

\* C3: NEXT skips without mutating. Dispatching NEXT runs no store command
\* and the session is at FETCH_ITEM.
C3_NextSkips ==
    [][ (pc = "dispatch" /\ cmd = NEXT) =>
            /\ calls' = calls
            /\ \A i \in 1..Len(out') : out'[i].ev # "run"
            /\ pc' = "fetch"
      ]_vars

\* NEXT entered on the first item, the second item fetched, nothing run
C3_Witness ==
    /\ cmd = NEXT
    /\ nFetch = 2
    /\ pc = "prompt"
    /\ calls = <<>>

InputStep(kind) == pc = "prompt" /\ nPrompts' = nPrompts + 1 /\ inputKind' = kind

UnknownCommand(r) == stdout(<<"unknown command: ">> \o r)

\* C5 as claimed: back at the prompt after any line that the parser maps to
\* None, "unknown command: <raw text>" has been printed.
C5_Original ==
    (pc = "prompt" /\ inputKind = "line" /\ parse(reply) = None) =>
        out = <<UnknownCommand(reply)>>

\* this step changes neither the store nor the item nor ends the session
NoEffect ==
    /\ calls' = calls
    /\ nFetch' = nFetch
    /\ mj_item' = mj_item
    /\ exitStatus' = "running"

\* C5, amended: for every non-empty line that the parser maps to None the
\* session prints "unknown command: <raw text>", runs no store command,
\* fetches nothing, does not end and is at the prompt on the same item; an
\* empty line is re-prompted without that message, equally without effect.
C5_UnknownCommandReprompts ==
    [][ /\ (InputStep("line") /\ reply' # <<>> /\ parse(reply') = None) =>
              /\ pc' = "dispatch"
              /\ cmd' = None
              /\ NoEffect
        /\ (pc = "dispatch" /\ cmd = None) =>
              /\ out' = <<UnknownCommand(reply)>>
              /\ reply' = reply
              /\ pc' = "prompt"
              /\ NoEffect
        /\ (InputStep("line") /\ reply' = <<>>) =>
              /\ out' = <<stdout(<<PROMPT_TEXT>>)>>
              /\ pc' = "prompt"
              /\ NoEffect
      ]_vars

\* "unknown" was typed and reported, the session is at the prompt
C5_Witness ==
    /\ pc = "prompt"
    /\ reply = <<"u", "n", "k", "n", "o", "w", "n">>
    /\ out = <<stdout(<<"unknown command: ", "u", "n", "k", "n", "o", "w", "n">>)>>
    /\ calls = <<>>
    /\ nFetch = 1

\* a requests call of these events raised RequestException
RequestFailed(events) ==
    \E i \in 1..Len(events) :
        events[i].ev = "raise" /\ events[i].text = <<"RequestException">>

C7_StoreFailureFatal ==
    \A i \in 1..Len(calls) :
        ~calls[i].ok =>
            /\ i = Len(calls)
            /\ pc = "crash"
            /\ exc = "CalledProcessError"
            /\ exitStatus = "failure"
            /\ nPrompts = calls[i].prompts
            /\ nFetch = calls[i].iter

\* a favorite command succeeded, the next one failed and ended the session
C7_Witness ==
    /\ Len(calls) = 2
    /\ calls[1].ok
    /\ ~calls[2].ok
    /\ calls[2].argv[3] = "favorite"
    /\ pc = "crash"

\* the memory_jogger subcommand of a command
Subcommand(c) ==
    CASE c = ARCHIVE -> "archive"
      [] c = DELETE -> "delete"
      [] c = FAVORITE -> "favorite"

\* every store command run so far answers one store command entered at the
\* prompt, in order, with the id of the item shown at that prompt; at most
\* the last entered command is still to be run
CallsMatchConfirmations ==
    /\ Len(calls) <= Len(confirmed)
    /\ Len(confirmed) <= Len(calls) + 1
    /\ (Len(confirmed) = Len(calls) + 1 => pc = "dispatch")
    /\ \A i \in 1..Len(calls) :
           /\ calls[i].argv = ExpectedArgv(Subcommand(confirmed[i].cmd), confirmed[i].id)
           /\ calls[i].prompts = confirmed[i].prompts

\* C8: store commands are run at most once per confirmation and keyed by
\* the current item. Every run of a store command is the dispatch of one
\* ARCHIVE, DELETE or FAVORITE entered at the prompt and carries the id of
\* mj_item, which only a fetch changes; none is run during FETCH_ITEM or
\* DISPLAY_AND_ENRICH.
C8_OneCallPerConfirmation ==
    /\ []CallsMatchConfirmations
    /\ [][ /\ calls' # calls =>
                 /\ pc = "dispatch"
                 /\ cmd \in StoreCommands
                 /\ OneCall(ExpectedArgv(Subcommand(cmd), mj_item.id))
           /\ mj_item' # mj_item => pc = "fetch"
           /\ nFetch' # nFetch => pc = "fetch"
           /\ pc \in {"fetch", "enrich"} =>
                 /\ calls' = calls
                 /\ \A i \in 1..Len(out') : out'[i].ev # "run"
         ]_vars

\* three confirmations, three commands: FAVORITE and ARCHIVE on the first
\* item, DELETE on a different second item
C8_Witness ==
    /\ Len(calls) = 3
    /\ Len(confirmed) = 3
    /\ calls[1].argv[3] = "favorite" /\ calls[1].iter = 1
    /\ calls[2].argv[3] = "archive" /\ calls[2].iter = 1
    /\ calls[2].argv[5] = calls[1].argv[5]
    /\ calls[3].argv = ExpectedArgv("delete", mj_item.id) /\ calls[3].iter = 2
    /\ calls[3].argv[5] # calls[1].argv[5]

----------------------------------------------------------------------------
(* Properties of the parser *)

\* p is a prefix of s, character by character
IsPrefix(p, s) ==
    /\ Len(p) <= Len(s)
    /\ \A k \in 1..Len(p) : p[k] = s[k]

\* the canonical names, in the fixed order
CanonicalNames ==
    << <<"a", "r", "c", "h", "i", "v", "e">>,
       <<"d", "e", "l", "e", "t", "e">>,
       <<"f", "a", "v", "o", "r", "i", "t", "e">>,
       <<"n", "e", "x", "t">>,
       <<"q", "u", "i", "t">> >>

CommandsInOrder == <<ARCHIVE, DELETE, FAVORITE, NEXT, QUIT>>

\* C9: Command.parse follows the prefix rule. Its result is the first
\* command, in the order ARCHIVE, DELETE, FAVORITE, NEXT, QUIT, whose
\* canonical name starts with the text, and None when the text is empty or
\* is a prefix of no name; so every non-empty prefix of a name, up to the
\* full name, gives that command, "" and "unknown" give None, and the
\* result is always a command or None (nothing is raised).
C9_ParseFollowsPrefixRule ==
    parsed # "unset" =>
        LET starts == {i \in 1..5 : IsPrefix(text, CanonicalNames[i])}
        IN /\ parsed \in {ARCHIVE, DELETE, FAVORITE, NEXT, QUIT, None}
           /\ (text = <<>> \/ starts = {}) => parsed = None
           /\ (text # <<>> /\ starts # {}) =>
                  \E i \in starts :
                      /\ parsed = CommandsInOrder[i]
                      /\ \A j \in starts : i <= j
           /\ \A i \in 1..5 : \A n \in 1..Len(CanonicalNames[i]) :
                  text = SubSeq(CanonicalNames[i], 1, n) => parsed = CommandsInOrder[i]
           /\ text = <<"u", "n", "k", "n", "o", "w", "n">> => parsed = None

\* the proper prefix "fav" parsed to FAVORITE
C9_Witness ==
    /\ text = <<"f", "a", "v">>
    /\ parsed = FAVORITE

\* C10: the reply is normalised (whitespace trimmed, letters lowercased)
\* before it is matched: the command that main() dispatches for a reply is
\* the command of the normalised reply, so replies that differ only in case
\* or surrounding whitespace are dispatched alike.
C10_ReplyNormalisedBeforeParse ==
    (pc = "dispatch" /\ inputKind = "line") => cmd = parse(lower(strip(reply)))

----------------------------------------------------------------------------
(* Runs of format_discussions alone (app.py 88-93) *)

\* longest list of hits
MaxHits == 3

\* objectID and points of the hits
HitIds == {"1", "2", "123"}

HitPoints == {0, 1, 10}

\* the hits: created_at_i is the number of the objectID
Hits == {Hit(id, points, IF id = "1" THEN 1 ELSE IF id = "2" THEN 2 ELSE 0) :
             id \in HitIds, points \in HitPoints}

InitFormat ==
    /\ pc = "function"
    /\ mj_item = NoItem
    /\ inputKind = "none"
    /\ reply = <<>>
    /\ cmd = None
    /\ exc = "none"
    /\ exitStatus = "running"
    /\ calls = <<>>
    /\ confirmed = <<>>
    /\ nFetch = 0
    /\ nPrompts = 0
    /\ out = <<>>
    /\ text = <<>>
    /\ parsed = None
    /\ processed = None
    /\ arg_data \in {[hits |-> h] : h \in SeqsUpTo(Hits, MaxHits)}
    /\ arg_exclude_id \in HitIds \cup {None}
    /\ returned = <<>>

\* format_discussions(arg_data, arg_exclude_id)
ApplyFormat ==
    /\ pc = "function"
    /\ pc' = "returned"
    /\ returned' = format_discussions(arg_data, arg_exclude_id)
    /\ UNCHANGED <<text, parsed, processed, arg_data, arg_exclude_id>>
    /\ UNCHANGED <<mj_item, inputKind, reply, cmd, exc, exitStatus, calls, confirmed,
                   nFetch, nPrompts, out>>

SpecFormat == InitFormat /\ [][ApplyFormat]_vars

\* the line of a hit: its discussion URL, its points with "point" in the
\* singular for 1 only, and its creation time
ExpectedLine(hit) ==
    <<"https://news.ycombinator.com/item?id=", hit.objectID, " | ", ToString(hit.points),
      IF hit.points = 1 THEN " point" ELSE " points",
      " | ", "created_at:", ToString(hit.created_at_i)>>

\* positions of the hits that are kept
Kept == {i \in 1..Len(arg_data.hits) : arg_data.hits[i].objectID # arg_exclude_id}

\* the place of the kept hit i: after every kept hit with more points and
\* every earlier kept hit with the same points
Rank(i) ==
    1 + Cardinality({j \in Kept :
                        \/ arg_data.hits[j].points > arg_data.hits[i].points
                        \/ (arg_data.hits[j].points = arg_data.hits[i].points /\ j < i)})

\* C11: format_discussions returns exactly one line for each hit whose id
\* differs from the exclude id, by points descending, hits of equal points
\* in their order in the input.
C11_FormatSortedStable ==
    pc = "returned" =>
        /\ Len(returned) = Cardinality(Kept)
        /\ \A i \in Kept : returned[Rank(i)] = ExpectedLine(arg_data.hits[i])
        /\ \A k \in 1..Len(returned) : returned[k][2] # arg_exclude_id

\* hits 1 (10 points), 123 (excluded), 2 (10 points): the lines of 1 and 2,
\* in that order
C11_Witness ==
    /\ pc = "returned"
    /\ arg_data.hits = <<Hit("1", 10, 1), Hit("123", 10, 0), Hit("2", 10, 2)>>
    /\ arg_exclude_id = "123"
    /\ returned = <<ExpectedLine(Hit("1", 10, 1)), ExpectedLine(Hit("2", 10, 2))>>

----------------------------------------------------------------------------
(* Runs of parse_url_from_snapshot alone (wayback.py 26-31) *)

\* the snapshots the archive API can name as "closest"
ClosestSnapshots ==
    [available : BOOLEAN,
     url : {SNAPSHOT_URL,
            "http://web.archive.org/web/20060101064348/http://example.com/",
            "http://web.archive.org/web/20200101000000/http://example.com/a",
            "http://web.archive.org/web/20130919044612/https://news.ycombinator.com/item?id=123",
            "http://web.archive.org/web/20100304000000/https://www.reddit.com/"},
     timestamp : {"20130919044612", "20060101064348", "20200101000000"},
     status : {"200", "301"}]

\* the JSON of the archive API: {"archived_snapshots": {}} or
\* {"archived_snapshots": {"closest": {...}}}
SnapshotResponses ==
    {[archived_snapshots |-> <<>>]}
        \cup {[archived_snapshots |-> [closest |-> c]] : c \in ClosestSnapshots}

InitSnapshot ==
    /\ pc = "function"
    /\ mj_item = NoItem
    /\ inputKind = "none"
    /\ reply = <<>>
    /\ cmd = None
    /\ exc = "none"
    /\ exitStatus = "running"
    /\ calls = <<>>
    /\ confirmed = <<>>
    /\ nFetch = 0
    /\ nPrompts = 0
    /\ out = <<>>
    /\ text = <<>>
    /\ parsed = None
    /\ processed = None
    /\ arg_data \in SnapshotResponses
    /\ arg_exclude_id = None
    /\ returned = "unset"

\* parse_url_from_snapshot(arg_data)
ApplySnapshot ==
    /\ pc = "function"
    /\ pc' = "returned"
    /\ returned' = parse_url_from_snapshot(arg_data)
    /\ UNCHANGED <<text, parsed, processed, arg_data, arg_exclude_id>>
    /\ UNCHANGED <<mj_item, inputKind, reply, cmd, exc, exitStatus, calls, confirmed,
                   nFetch, nPrompts, out>>

SpecSnapshot == InitSnapshot /\ [][ApplySnapshot]_vars

\* C14: parse_url_from_snapshot returns the url of the "closest" snapshot
\* when archived_snapshots is not empty, and None when it is empty.
C14_SnapshotParsing ==
    pc = "returned" =>
        /\ DOMAIN arg_data.archived_snapshots = {} => returned = None
        /\ DOMAIN arg_data.archived_snapshots # {} =>
               /\ returned = arg_data.archived_snapshots.closest.url
               /\ returned # None

\* the response of the test: its closest url is returned
C14_Witness ==
    /\ pc = "returned"
    /\ DOMAIN arg_data.archived_snapshots = {"closest"}
    /\ arg_data.archived_snapshots.closest.timestamp = "20130919044612"
    /\ returned = "http://web.archive.org/web/20130919044612/http://example.com/"

----------------------------------------------------------------------------
(* Properties of the resolver and of DISPLAY_AND_ENRICH *)

URL_PREFIX == "https://news.ycombinator.com/item?id="

\* the events hold a request to the search API
HasSearch(events) ==
    \E i \in 1..Len(events) : events[i].ev = "get" /\ events[i].chan = HN_SEARCH_URL

\* the printed lines hold no discussion with the given id
NoLineOf(id, printed) ==
    \A k \in 1..(Len(printed) - 1) : printed[k] = URL_PREFIX => printed[k + 1] # id

\* C12: for a news.ycombinator.com URL with exactly one id the resolver
\* fetches that item, and searches if and only if the item has a "url": then
\* the article URL is printed first and the search is made for that URL,
\* its printed results without the item's own id; without a "url" no search
\* is made and the resolver returns normally (the snapshot lookup follows
\* and the session reaches the prompt).
C12_HnItemSearchedIffArticleUrl ==
    [][ (/\ pc = "enrich"
         /\ mj_item.url.netloc = "news.ycombinator.com"
         /\ Len(mj_item.url.ids) = 1) =>
            LET post_id == mj_item.url.ids[1]
                fetched == out'[3].ev = "response"
                item_url == out'[3].text[1]
            IN /\ out'[2] = [ev |-> "get", chan |-> HN_ITEM_URL, text |-> <<post_id, ".json">>]
               /\ HasSearch(out') <=> (fetched /\ item_url # None)
               /\ (fetched /\ item_url # None) =>
                      /\ out'[4] = [ev |-> "print", chan |-> "stdout", text |-> <<item_url>>]
                      /\ out'[5].ev = "get"
                      /\ out'[5].chan = HN_SEARCH_URL
                      /\ out'[5].text[1] = item_url
                      /\ out'[6].ev = "print" =>
                             /\ out'[6].chan = "stdout"
                             /\ NoLineOf(post_id, out'[6].text)
               /\ (fetched /\ item_url = None) =>
                      /\ \A i \in 1..Len(out') :
                             out'[i].ev = "raise" => out'[i].chan = BASE_URL
                      /\ out'[4].ev = "get"
                      /\ out'[4].chan = BASE_URL
                      /\ pc' = "prompt"
                      /\ exitStatus' = "running"
      ]_vars

\* item 123 has the article URL; it is printed, and of the hits 2 and 123
\* of the search only the line of 2 is printed
C12_Witness ==
    /\ pc = "prompt"
    /\ mj_item.url.ids = <<"123">>
    /\ Len(out) >= 6
    /\ out[3] = [ev |-> "response", chan |-> HN_ITEM_URL, text |-> <<ARTICLE_URL>>]
    /\ out[4] = [ev |-> "print", chan |-> "stdout", text |-> <<ARTICLE_URL>>]
    /\ out[6] = [ev |-> "print", chan |-> "stdout",
                 text |-> <<URL_PREFIX, "2", " | ", "1", " point", " | ", "created_at:", "1">>]

\* C13: for a www.reddit.com URL the resolver hands the lookup a key of the
\* lookup's kind (the by-URL lookup gets the URL of the item), and when the
\* lookup returns it prints the submission's url and searches for that url.
C13_RedditKeyMatchesLookup ==
    (/\ pc \in {"prompt", "crash"}
     /\ Len(out) >= 2
     /\ mj_item.url.netloc = "www.reddit.com"
     /\ out[1] = summary(mj_item)) =>
        /\ out[2].ev = "submission"
        /\ out[2].chan = "reddit.submission(url=)" => out[2].text = <<mj_item.url.href>>
        /\ out[3].ev = "print" =>
               /\ out[4].ev = "get"
               /\ out[4].chan = HN_SEARCH_URL
               /\ out[4].text[1] = out[3].text[1]

\* where the events of the resolver come from
ResolverPlaces ==
    {HN_ITEM_URL, HN_SEARCH_URL, "reddit.submission(url=)", "parse_qs", "assert", "path.split"}

\* event i is the request of the snapshot lookup
IsSnapshotLookup(events, i) == events[i].ev = "get" /\ events[i].chan = BASE_URL

\* C15: in DISPLAY_AND_ENRICH the summary is printed first, then the
\* resolver runs, and the snapshot lookup is made only after the resolver
\* and only if the resolver raised nothing: when the resolver fails there
\* is no snapshot lookup for the item.
C15_SnapshotOnlyAfterResolver ==
    [][ pc = "enrich" =>
            /\ Len(out') >= 2
            /\ out'[1].ev = "print"
            /\ out'[1].chan = "stdout"
            /\ out'[1].text[1] = "title"
            /\ out'[1].text[2] = ToString(mj_item.id)
            /\ out'[2].chan \in ResolverPlaces
            /\ \A i \in 1..Len(out') :
                   IsSnapshotLookup(out', i) =>
                       /\ \A j \in 1..Len(out') : out'[j].chan \in ResolverPlaces => j < i
                       /\ \A j \in 1..Len(out') :
                              ~(out'[j].ev = "raise" /\ out'[j].chan \in ResolverPlaces)
      ]_vars

\* the search of the resolver failed: a warning, no snapshot lookup, prompt
C15_Witness ==
    /\ pc = "prompt"
    /\ \E j \in 1..Len(out) : out[j] = raises(HN_SEARCH_URL, "RequestException")
    /\ \A i \in 1..Len(out) : ~IsSnapshotLookup(out, i)
    /\ out[Len(out)].chan = "stderr"

\* C16: a news.ycombinator.com URL without an id, or with more than one, is
\* fatal: the resolver raises an error that is no RequestException (KeyError
\* without an id, AssertionError with several), nothing is requested and no
\* warning is written, the session ends with failure status without a
\* prompt for the item and without a store command, and nothing follows.
C16_MalformedHnUrlFatal ==
    [][ /\ (/\ pc = "enrich"
            /\ mj_item.url.netloc = "news.ycombinator.com"
            /\ Len(mj_item.url.ids) # 1) =>
               /\ pc' = "crash"
               /\ exitStatus' = "failure"
               /\ exc' = (IF Len(mj_item.url.ids) = 0 THEN "KeyError" ELSE "AssertionError")
               /\ \A i \in 1..Len(out') :
                      /\ out'[i].chan # "stderr"
                      /\ out'[i].ev \notin {"get", "run"}
               /\ calls' = calls
               /\ nPrompts' = nPrompts
        /\ pc = "crash" => FALSE
      ]_vars

\* the item with two ids ended the first iteration with AssertionError
C16_Witness ==
    /\ pc = "crash"
    /\ exc = "AssertionError"
    /\ mj_item.url.ids = <<"1", "2">>
    /\ nPrompts = 0
    /\ calls = <<>>

====
